---------------------------- MODULE Spec2Model ----------------------------
(***************************************************************************)
(* Model of the Markdown formatting engine of the editor (applyFormat in   *)
(* src/App.tsx) and of the host state it is applied to.                    *)
(*                                                                         *)
(* A JavaScript string is modelled as a sequence of one-character strings. *)
(* JavaScript offsets are zero-based; the helpers below take and return    *)
(* zero-based offsets and translate to the one-based sequences of TLA+.    *)
(***************************************************************************)
EXTENDS Integers, Sequences, FiniteSets, TLC

-----------------------------------------------------------------------------
(* Bounds of the model. *)

\* Number of tokens a generated document is built from.
MaxTokens == 3

\* Number of tokens of a document in the specification of all actions.
MaxTokensAll == 2

\* Number of times an inline format is applied in a row.
MaxApplications == 3

-----------------------------------------------------------------------------
(* JavaScript string primitives. *)

Min(a, b) == IF a < b THEN a ELSE b

Max(a, b) == IF a > b THEN a ELSE b

\* Characters String.prototype.trim removes and the regular expression \s matches.
WhiteSpace == {" ", "\t", "\n", "\r", "\f"}

\* Characters the regular expression \d matches.
Digits == {"0", "1", "2", "3", "4", "5", "6", "7", "8", "9"}

\* An offset argument clamped into 0..Len(s), as the String methods do.
Clamp(s, i) == Max(0, Min(i, Len(s)))

\* s.substring(a, b): both arguments clamped, and swapped when a > b.
substring(s, a, b) ==
    LET lo == Min(Clamp(s, a), Clamp(s, b))
        hi == Max(Clamp(s, a), Clamp(s, b))
    IN  SubSeq(s, lo + 1, hi)

\* s.substring(a)
substringFrom(s, a) == substring(s, a, Len(s))

\* pat occurs in s at zero-based offset i
MatchesAt(s, pat, i) ==
    /\ i >= 0
    /\ i + Len(pat) <= Len(s)
    /\ \A k \in 1..Len(pat) : s[i + k] = pat[k]

\* s.startsWith(pat)
startsWith(s, pat) == MatchesAt(s, pat, 0)

\* s.indexOf(pat, from): the first occurrence at or after from, or -1.
indexOf(s, pat, from) ==
    LET hits == {i \in Clamp(s, from)..Len(s) : MatchesAt(s, pat, i)}
    IN  IF hits = {} THEN -1 ELSE CHOOSE i \in hits : \A j \in hits : i <= j

\* s.lastIndexOf(pat, from): the last occurrence at or before from, or -1.
\* A negative from is treated as 0, so an occurrence at offset 0 is still found.
lastIndexOf(s, pat, from) ==
    LET hits == {i \in 0..Clamp(s, from) : MatchesAt(s, pat, i)}
    IN  IF hits = {} THEN -1 ELSE CHOOSE i \in hits : \A j \in hits : i >= j

\* s.replace(pat, ''): the first occurrence of the string pat removed.
replaceFirst(s, pat) ==
    LET i == indexOf(s, pat, 0)
    IN  IF i = -1 THEN s
        ELSE SubSeq(s, 1, i) \o SubSeq(s, i + Len(pat) + 1, Len(s))

RECURSIVE trimStart(_)
trimStart(s) ==
    IF s # <<>> /\ Head(s) \in WhiteSpace THEN trimStart(Tail(s)) ELSE s

RECURSIVE trimEnd(_)
trimEnd(s) ==
    IF s # <<>> /\ s[Len(s)] \in WhiteSpace
    THEN trimEnd(SubSeq(s, 1, Len(s) - 1))
    ELSE s

\* s.trim()
trim(s) == trimEnd(trimStart(s))

\* s.split('\n'): the pieces between newlines; the empty string gives one
\* empty piece.
RECURSIVE split(_)
split(s) ==
    LET i == indexOf(s, <<"\n">>, 0)
    IN  IF i = -1 THEN <<s>>
        ELSE <<SubSeq(s, 1, i)>> \o split(SubSeq(s, i + 2, Len(s)))

\* items.join(sep)
RECURSIVE join(_, _)
join(items, sep) ==
    IF items = <<>> THEN <<>>
    ELSE IF Len(items) = 1 THEN items[1]
    ELSE items[1] \o sep \o join(Tail(items), sep)

\* Array(n).fill(x)
fill(n, x) == [i \in 1..n |-> x]

DigitChar(d) ==
    CASE d = 0 -> "0" [] d = 1 -> "1" [] d = 2 -> "2" [] d = 3 -> "3"
      [] d = 4 -> "4" [] d = 5 -> "5" [] d = 6 -> "6" [] d = 7 -> "7"
      [] d = 8 -> "8" [] d = 9 -> "9"

DigitValue(c) ==
    CASE c = "0" -> 0 [] c = "1" -> 1 [] c = "2" -> 2 [] c = "3" -> 3
      [] c = "4" -> 4 [] c = "5" -> 5 [] c = "6" -> 6 [] c = "7" -> 7
      [] c = "8" -> 8 [] c = "9" -> 9

\* The decimal text of a natural number, as a template literal renders it.
RECURSIVE numberToString(_)
numberToString(n) ==
    IF n < 10 THEN <<DigitChar(n)>>
    ELSE numberToString(n \div 10) \o <<DigitChar(n % 10)>>

\* Length of the longest run of digits at the start of s (the match of \d+).
RECURSIVE digitRun(_)
digitRun(s) ==
    IF s # <<>> /\ Head(s) \in Digits THEN 1 + digitRun(Tail(s)) ELSE 0

\* Length of the match of /^\d+\.\s/ in s, or -1 when it does not match.
numberedMatch(s) ==
    LET n == digitRun(s)
    IN  IF /\ n >= 1
           /\ Len(s) >= n + 2
           /\ s[n + 1] = "."
           /\ s[n + 2] \in WhiteSpace
        THEN n + 2
        ELSE -1

\* /^\d+\.\s/.test(s)
numberedTest(s) == numberedMatch(s) # -1

\* s.replace(/^\d+\.\s/, '')
numberedReplace(s) ==
    IF numberedMatch(s) = -1 THEN s
    ELSE SubSeq(s, numberedMatch(s) + 1, Len(s))

-----------------------------------------------------------------------------
(* String literals of applyFormat. *)

LinkText == <<"l", "i", "n", "k", " ", "t", "e", "x", "t">>

NullText == <<"n", "u", "l", "l">>

DefaultCount == <<"2">>

ImgSrc == <<"<", "i", "m", "g", " ", "s", "r", "c", "=", "\"">>

ImgAlt == <<"\"", " ", "a", "l", "t", "=", "\"">>

ImgWidth == <<"\"", " ", "w", "i", "d", "t", "h", "=", "\"">>

ImgClose == <<"\"", ">">>

HeaderCell == <<"H", "e", "a", "d", "e", "r">>

DividerCell == <<"-", "-", "-">>

BodyCell == <<"C", "e", "l", "l">>

CellSep == <<" ", "|", " ">>

RowOpen == <<"|", " ">>

RowClose == <<" ", "|">>

-----------------------------------------------------------------------------
(* window.prompt and parseInt. *)

\* What window.prompt returns: null when the dialog is cancelled, otherwise
\* the text entered (possibly empty).
Null == [given |-> FALSE, text |-> <<>>]

Answer(t) == [given |-> TRUE, text |-> t]

\* Truthiness of a prompt result: null and '' are falsy.
truthy(a) == a.given /\ a.text # <<>>

\* A prompt result inside a template literal: null renders as 'null'.
render(a) == IF a.given THEN a.text ELSE NullText

\* a || dflt
orDefault(a, dflt) == IF truthy(a) THEN a.text ELSE dflt

NaN == [nan |-> TRUE, val |-> 0, huge |-> FALSE]

RECURSIVE digitsValue(_)
digitsValue(s) ==
    IF s = <<>> THEN 0
    ELSE 10 * digitsValue(SubSeq(s, 1, Len(s) - 1)) + DigitValue(s[Len(s)])

\* The digits without their leading zeros.
RECURSIVE stripZeros(_)
stripZeros(s) ==
    IF s # <<>> /\ Head(s) = "0" THEN stripZeros(Tail(s)) ELSE s

\* Numbers of more digits than this are at least 10^9: Array(n) raises a
\* RangeError for n > 2^32 - 1, and for the smaller ones of them the rows
\* built by fill and join exceed the longest string there can be.  Such a
\* number is kept as huge, with val its sign only.
MaxExactDigits == 9

\* parseInt(s, 10): leading white space skipped, an optional sign, then the
\* longest run of digits; NaN when there is no digit; the rest is ignored.
parseInt(s) ==
    LET t == trimStart(s)
        signed == t # <<>> /\ Head(t) \in {"+", "-"}
        u == IF signed THEN Tail(t) ELSE t
        n == digitRun(u)
        digits == stripZeros(SubSeq(u, 1, n))
        huge == Len(digits) > MaxExactDigits
        v == IF huge THEN 1 ELSE digitsValue(digits)
    IN  IF n = 0 THEN NaN
        ELSE [nan |-> FALSE,
              val |-> IF signed /\ Head(t) = "-" THEN 0 - v ELSE v,
              huge |-> huge]

-----------------------------------------------------------------------------
(* applyFormat, src/App.tsx. *)

InlineFormats == {"bold", "italic", "strikethrough", "code"}

HeadingFormats == {"h1", "h2", "h3", "h4", "h5", "h6"}

ListFormats == {"ul", "ol"}

PromptFormats == {"link", "image", "table"}

\* The type FormatAction.
FormatAction == InlineFormats \cup HeadingFormats \cup ListFormats \cup PromptFormats

\* The grave accent character, which cannot be written inside a TLA+ string.
Backtick == "grave"

\* The delimiter each inline format wraps the selection in.
InlineToken(format) ==
    CASE format = "bold" -> <<"*", "*">>
      [] format = "italic" -> <<"*">>
      [] format = "strikethrough" -> <<"~", "~">>
      [] format = "code" -> <<Backtick>>

\* The prefix each heading format passes to prefixLine.
HeadingPrefix(format) ==
    CASE format = "h1" -> <<"#", " ">>
      [] format = "h2" -> <<"#", "#", " ">>
      [] format = "h3" -> <<"#", "#", "#", " ">>
      [] format = "h4" -> <<"#", "#", "#", "#", " ">>
      [] format = "h5" -> <<"#", "#", "#", "#", "#", " ">>
      [] format = "h6" -> <<"#", "#", "#", "#", "#", "#", " ">>

UlPrefix == <<"-", " ">>

\* The number of prompts each format issues.
PromptCount(format) ==
    CASE format = "link" -> 1
      [] format = "image" -> 3
      [] format = "table" -> 2
      [] OTHER -> 0

Result(newMarkdown, newStart, newEnd) ==
    [newMarkdown |-> newMarkdown,
     newSelection |-> [start |-> newStart, end |-> newEnd],
     raised |-> FALSE]

\* applyFormat raises an error instead of returning: the caller is left
\* with the document and the range it passed.
Raised(markdown, start, end) ==
    [newMarkdown |-> markdown,
     newSelection |-> [start |-> start, end |-> end],
     raised |-> TRUE]

\* splice with the text after the selection taken one character late.
spliceSkipsOne(markdown, start, end, newText, newStart, newEnd) ==
    Result(substring(markdown, 0, start) \o newText
               \o substringFrom(markdown, end + 1),
           newStart, newEnd)

\* The tail of applyFormat: the selection replaced by newText.
splice(markdown, start, end, newText, newStart, newEnd) ==
    Result(substring(markdown, 0, start) \o newText \o substringFrom(markdown, end),
           newStart, newEnd)

\* wrap removing the delimiters that already surround the selection.
wrapToggles(markdown, start, end, prefix) ==
    LET selection == substring(markdown, start, end)
        newText == prefix \o selection \o prefix
        newStart == start + Len(prefix)
        newEnd == IF selection # <<>>
                  THEN start + Len(prefix) + Len(selection)
                  ELSE start + Len(prefix)
        surrounded ==
            /\ start >= Len(prefix)
            /\ substring(markdown, start - Len(prefix), start) = prefix
            /\ substring(markdown, end, end + Len(prefix)) = prefix
    IN  IF surrounded
        THEN Result(substring(markdown, 0, start - Len(prefix)) \o selection
                        \o substringFrom(markdown, end + Len(prefix)),
                    start - Len(prefix), end - Len(prefix))
        ELSE splice(markdown, start, end, newText, newStart, newEnd)

\* wrap with the caret of an empty selection left before the delimiters.
wrapCaretBefore(markdown, start, end, prefix) ==
    LET selection == substring(markdown, start, end)
        newText == prefix \o selection \o prefix
        newStart == IF selection # <<>> THEN start + Len(prefix) ELSE start
        newEnd == IF selection # <<>>
                  THEN start + Len(prefix) + Len(selection)
                  ELSE start
    IN  splice(markdown, start, end, newText, newStart, newEnd)

\* wrap(prefix) followed by the tail of applyFormat.
wrap(markdown, start, end, prefix) ==
    LET selection == substring(markdown, start, end)
        newText == prefix \o selection \o prefix
        newStart == start + Len(prefix)
        newEnd == IF selection # <<>>
                  THEN start + Len(prefix) + Len(selection)
                  ELSE start + Len(prefix)
    IN  splice(markdown, start, end, newText, newStart, newEnd)

\* applyLineFormatting returning the range it was given.
applyLineFormattingKeepsRange(markdown, start, end, linePrefix) ==
    LET selection == substring(markdown, start, end)
        selectedLines == split(selection)
        hasPrefix(line) == startsWith(trim(line), linePrefix)
        allLinesStartWithPrefix ==
            \A k \in 1..Len(selectedLines) : hasPrefix(selectedLines[k])
        stripped == [k \in 1..Len(selectedLines) |->
                        replaceFirst(selectedLines[k], linePrefix)]
        added == [k \in 1..Len(selectedLines) |->
                     IF hasPrefix(selectedLines[k])
                     THEN selectedLines[k]
                     ELSE linePrefix \o selectedLines[k]]
        newText == IF allLinesStartWithPrefix
                   THEN join(stripped, <<"\n">>)
                   ELSE join(added, <<"\n">>)
    IN  splice(markdown, start, end, newText, start, end)

\* applyLineFormatting adding the prefix to every line of a mixed selection.
applyLineFormattingAddsToAll(markdown, start, end, linePrefix) ==
    LET selection == substring(markdown, start, end)
        selectedLines == split(selection)
        hasPrefix(line) == startsWith(trim(line), linePrefix)
        allLinesStartWithPrefix ==
            \A k \in 1..Len(selectedLines) : hasPrefix(selectedLines[k])
        stripped == [k \in 1..Len(selectedLines) |->
                        replaceFirst(selectedLines[k], linePrefix)]
        added == [k \in 1..Len(selectedLines) |-> linePrefix \o selectedLines[k]]
        newText == IF allLinesStartWithPrefix
                   THEN join(stripped, <<"\n">>)
                   ELSE join(added, <<"\n">>)
    IN  splice(markdown, start, end, newText, start, start + Len(newText))

\* applyLineFormatting putting the prefix of an empty selection at the start
\* of the line of the caret.
applyLineFormattingAtLine(markdown, start, end, linePrefix) ==
    LET selection == substring(markdown, start, end)
        selectedLines == split(selection)
        hasPrefix(line) == startsWith(trim(line), linePrefix)
        allLinesStartWithPrefix ==
            \A k \in 1..Len(selectedLines) : hasPrefix(selectedLines[k])
        stripped == [k \in 1..Len(selectedLines) |->
                        replaceFirst(selectedLines[k], linePrefix)]
        added == [k \in 1..Len(selectedLines) |->
                     IF hasPrefix(selectedLines[k])
                     THEN selectedLines[k]
                     ELSE linePrefix \o selectedLines[k]]
        newText == IF allLinesStartWithPrefix
                   THEN join(stripped, <<"\n">>)
                   ELSE join(added, <<"\n">>)
        lineStart == lastIndexOf(markdown, <<"\n">>, start - 1) + 1
    IN  IF selection = <<>>
        THEN splice(markdown, lineStart, lineStart, newText,
                    lineStart, lineStart + Len(newText))
        ELSE splice(markdown, start, end, newText, start, start + Len(newText))

\* applyLineFormatting(linePrefix) followed by the tail of applyFormat.
applyLineFormatting(markdown, start, end, linePrefix) ==
    LET selection == substring(markdown, start, end)
        selectedLines == split(selection)
        hasPrefix(line) == startsWith(trim(line), linePrefix)
        allLinesStartWithPrefix ==
            \A k \in 1..Len(selectedLines) : hasPrefix(selectedLines[k])
        stripped == [k \in 1..Len(selectedLines) |->
                        replaceFirst(selectedLines[k], linePrefix)]
        added == [k \in 1..Len(selectedLines) |->
                     IF hasPrefix(selectedLines[k])
                     THEN selectedLines[k]
                     ELSE linePrefix \o selectedLines[k]]
        newText == IF allLinesStartWithPrefix
                   THEN join(stripped, <<"\n">>)
                   ELSE join(added, <<"\n">>)
    IN  splice(markdown, start, end, newText, start, start + Len(newText))

\* The start of the line prefixLine edits.
prefixLineStart(markdown, start) == lastIndexOf(markdown, <<"\n">>, start - 1) + 1

\* The end of the line prefixLine edits.
prefixLineEnd(markdown, start) ==
    IF indexOf(markdown, <<"\n">>, start) = -1
    THEN Len(markdown)
    ELSE indexOf(markdown, <<"\n">>, start)

\* prefixLine with the start of the returned range not clamped at the line.
prefixLineUnclamped(markdown, start, end, prefix) ==
    LET lineStart == prefixLineStart(markdown, start)
        lineEnd == prefixLineEnd(markdown, start)
        line == substring(markdown, lineStart, lineEnd)
    IN  IF startsWith(trim(line), prefix)
        THEN Result(substring(markdown, 0, lineStart) \o replaceFirst(line, prefix)
                        \o substringFrom(markdown, lineEnd),
                    start - Len(prefix),
                    end - Len(prefix))
        ELSE Result(substring(markdown, 0, lineStart) \o prefix \o line
                        \o substringFrom(markdown, lineEnd),
                    start + Len(prefix),
                    end + Len(prefix))

\* prefixLine(prefix)
prefixLine(markdown, start, end, prefix) ==
    LET lineStart == prefixLineStart(markdown, start)
        lineEnd == prefixLineEnd(markdown, start)
        line == substring(markdown, lineStart, lineEnd)
    IN  IF startsWith(trim(line), prefix)
        THEN Result(substring(markdown, 0, lineStart) \o replaceFirst(line, prefix)
                        \o substringFrom(markdown, lineEnd),
                    Max(lineStart, start - Len(prefix)),
                    end - Len(prefix))
        ELSE Result(substring(markdown, 0, lineStart) \o prefix \o line
                        \o substringFrom(markdown, lineEnd),
                    start + Len(prefix),
                    end + Len(prefix))

\* insert(text, cursorOffset)
insert(markdown, start, end, text, cursorOffset) ==
    Result(substring(markdown, 0, start) \o text \o substringFrom(markdown, end),
           start + cursorOffset, start + cursorOffset)

\* case 'ol' numbering the lines from 0.
orderedListFromZero(markdown, start, end) ==
    LET selection == substring(markdown, start, end)
        lines == split(selection)
        numbered(line) == numberedTest(trim(line))
        isNumbered == \A k \in 1..Len(lines) : numbered(lines[k])
        stripped == [k \in 1..Len(lines) |-> numberedReplace(lines[k])]
        renumbered == [k \in 1..Len(lines) |->
                          numberToString(k - 1) \o <<".", " ">> \o lines[k]]
        newText == IF isNumbered
                   THEN join(stripped, <<"\n">>)
                   ELSE join(renumbered, <<"\n">>)
    IN  splice(markdown, start, end, newText, start, start + Len(newText))

\* case 'ol'
orderedList(markdown, start, end) ==
    LET selection == substring(markdown, start, end)
        lines == split(selection)
        numbered(line) == numberedTest(trim(line))
        isNumbered == \A k \in 1..Len(lines) : numbered(lines[k])
        stripped == [k \in 1..Len(lines) |-> numberedReplace(lines[k])]
        \* the zero-based index of lines[k] is k - 1, so index + 1 is k
        renumbered == [k \in 1..Len(lines) |->
                          numberToString(k) \o <<".", " ">> \o lines[k]]
        newText == IF isNumbered
                   THEN join(stripped, <<"\n">>)
                   ELSE join(renumbered, <<"\n">>)
    IN  splice(markdown, start, end, newText, start, start + Len(newText))

\* case 'link' writing 'link text' in place of the selected text.
linkDropsSelection(markdown, start, end, answers) ==
    LET selection == substring(markdown, start, end)
        url == answers[1]
        newText == IF truthy(url)
                   THEN <<"[">> \o LinkText \o <<"]", "(">> \o url.text \o <<")">>
                   ELSE selection
    IN  splice(markdown, start, end, newText,
               start + Len(newText), start + Len(newText))

\* case 'link' returning the range it was given when no URL is supplied.
linkKeepsRange(markdown, start, end, answers) ==
    LET selection == substring(markdown, start, end)
        url == answers[1]
        newText == IF truthy(url)
                   THEN <<"[">> \o (IF selection # <<>> THEN selection ELSE LinkText)
                            \o <<"]", "(">> \o url.text \o <<")">>
                   ELSE selection
    IN  IF truthy(url)
        THEN splice(markdown, start, end, newText,
                    start + Len(newText), start + Len(newText))
        ELSE splice(markdown, start, end, newText, start, end)

\* case 'link'; answers[1] is the result of the URL prompt.
link(markdown, start, end, answers) ==
    LET selection == substring(markdown, start, end)
        url == answers[1]
        newText == IF truthy(url)
                   THEN <<"[">> \o (IF selection # <<>> THEN selection ELSE LinkText)
                            \o <<"]", "(">> \o url.text \o <<")">>
                   ELSE selection
    IN  splice(markdown, start, end, newText,
               start + Len(newText), start + Len(newText))

\* case 'image' always writing the Markdown form.
imageAlwaysMarkdown(markdown, start, end, answers) ==
    LET selection == substring(markdown, start, end)
        imgUrl == answers[1]
        altText == answers[2]
        newText == IF truthy(imgUrl)
                   THEN <<"!", "[">> \o render(altText) \o <<"]", "(">>
                            \o imgUrl.text \o <<")">>
                   ELSE selection
    IN  insert(markdown, start, end, newText, Len(newText))

\* case 'image'; answers are the results of the URL, alt text and width prompts.
image(markdown, start, end, answers) ==
    LET selection == substring(markdown, start, end)
        imgUrl == answers[1]
        altText == answers[2]
        width == answers[3]
        newText == IF truthy(imgUrl)
                   THEN IF truthy(width)
                        THEN ImgSrc \o imgUrl.text \o ImgAlt \o render(altText)
                                 \o ImgWidth \o width.text \o ImgClose
                        ELSE <<"!", "[">> \o render(altText) \o <<"]", "(">>
                                 \o imgUrl.text \o <<")">>
                   ELSE selection
    IN  insert(markdown, start, end, newText, Len(newText))

\* A row of the table with one cell too many.
tableRowExtraCell(cols, cell) ==
    RowOpen \o join(fill(cols + 1, cell), CellSep) \o RowClose

\* One row of the table: '| ' + Array(cols).fill(cell).join(' | ') + ' |'
tableRow(cols, cell) == RowOpen \o join(fill(cols, cell), CellSep) \o RowClose

\* case 'table' leaving the caret at the start of what it inserts.
tableCaretAtStart(markdown, start, end, answers) ==
    LET selection == substring(markdown, start, end)
        cols == parseInt(orDefault(answers[1], DefaultCount))
        rows == parseInt(orDefault(answers[2], DefaultCount))
        header == tableRow(cols.val, HeaderCell)
        divider == tableRow(cols.val, DividerCell)
        body == join(fill(rows.val, tableRow(cols.val, BodyCell)), <<"\n">>)
        newText == IF ~cols.nan /\ ~rows.nan /\ cols.val > 0 /\ rows.val > 0
                   THEN <<"\n">> \o header \o <<"\n">> \o divider \o <<"\n">>
                            \o body \o <<"\n">>
                   ELSE selection
    IN  insert(markdown, start, end, newText, 0)

\* case 'table'; answers are the results of the column and row prompts.
table(markdown, start, end, answers) ==
    LET selection == substring(markdown, start, end)
        cols == parseInt(orDefault(answers[1], DefaultCount))
        rows == parseInt(orDefault(answers[2], DefaultCount))
        header == tableRow(cols.val, HeaderCell)
        divider == tableRow(cols.val, DividerCell)
        body == join(fill(rows.val, tableRow(cols.val, BodyCell)), <<"\n">>)
        newText == IF ~cols.nan /\ ~rows.nan /\ cols.val > 0 /\ rows.val > 0
                   THEN <<"\n">> \o header \o <<"\n">> \o divider \o <<"\n">>
                            \o body \o <<"\n">>
                   ELSE selection
    IN  IF ~cols.nan /\ ~rows.nan /\ cols.val > 0 /\ rows.val > 0
           /\ (cols.huge \/ rows.huge)
        THEN Raised(markdown, start, end)
        ELSE insert(markdown, start, end, newText, Len(newText))

\* applyFormat(format, markdown, start, end), with the results of the prompts
\* it issues passed as answers.
applyFormat(format, markdown, start, end, answers) ==
    CASE format \in InlineFormats -> wrap(markdown, start, end, InlineToken(format))
      [] format \in HeadingFormats ->
            prefixLine(markdown, start, end, HeadingPrefix(format))
      [] format = "ul" -> applyLineFormatting(markdown, start, end, UlPrefix)
      [] format = "ol" -> orderedList(markdown, start, end)
      [] format = "link" -> link(markdown, start, end, answers)
      [] format = "image" -> image(markdown, start, end, answers)
      [] format = "table" -> table(markdown, start, end, answers)

-----------------------------------------------------------------------------
(* The state: the document and the selection applyFormat is called with,   *)
(* and the calls made so far, each with its arguments and its result.      *)

VARIABLES markdown, selectionStart, selectionEnd, calls

(* The prompts of the applyFormat call in progress: running is the format   *)
(* being applied ("none" between calls) and asked the prompts it has        *)
(* issued so far, each with the answer it got.                              *)
VARIABLES running, asked

(* The state of App the AI actions use: the selection reported by the       *)
(* editor, isLoading, modalContent, the prompt typed into the sidebar, the  *)
(* handleAiAction invocations awaiting the AI service, and those that have  *)
(* ended.                                                                   *)
VARIABLES selection, isLoading, modalContent, outlinePrompt, flights, settled

promptVars == <<running, asked>>

aiVars == <<isLoading, modalContent, outlinePrompt, flights, settled>>

vars == <<markdown, selectionStart, selectionEnd, calls, running, asked,
          selection, isLoading, modalContent, outlinePrompt, flights, settled>>

\* useState<Selection | null>: no selection.
NullSelection == [isNull |-> TRUE, text |-> <<>>, start |-> 0, end |-> 0]

\* What the editor reports for the range [start, end) of its text: the
\* selection when the selected text is not empty, null otherwise.
selectionOf(value, start, end) ==
    IF substring(value, start, end) # <<>>
    THEN [isNull |-> FALSE, text |-> substring(value, start, end),
          start |-> start, end |-> end]
    ELSE NullSelection

\* useState<{ title, content } | null>: no modal.
NullModal == [isNull |-> TRUE, title |-> "", content |-> <<>>]

\* promptOf with the width of an image asked for before its alt text.
promptOfWidthFirst(format, n) ==
    CASE format = "link" /\ n = 0 -> "Enter the URL:"
      [] format = "image" /\ n = 0 -> "Enter image URL:"
      [] format = "image" /\ n = 1 -> "Enter optional width (e.g., 300px or 50%):"
      [] format = "image" /\ n = 2 -> "Enter alt text:"
      [] format = "table" /\ n = 0 -> "Enter number of columns:"
      [] format = "table" /\ n = 1 -> "Enter number of rows:"
      [] OTHER -> "none"

\* The n-th prompt (counted from 0) applyFormat issues for the format, or
\* "none" when it issues no further prompt.
promptOf(format, n) ==
    CASE format = "link" /\ n = 0 -> "Enter the URL:"
      [] format = "image" /\ n = 0 -> "Enter image URL:"
      [] format = "image" /\ n = 1 -> "Enter alt text:"
      [] format = "image" /\ n = 2 -> "Enter optional width (e.g., 300px or 50%):"
      [] format = "table" /\ n = 0 -> "Enter number of columns:"
      [] format = "table" /\ n = 1 -> "Enter number of rows:"
      [] OTHER -> "none"

\* The prompts a call has issued when it got the given answers.
askedOf(format, answers) ==
    [k \in 1..Len(answers) |->
        [message |-> promptOf(format, k - 1), answer |-> answers[k]]]

\* The documents built from at most n of the given tokens.
RECURSIVE Documents(_, _)
Documents(tokens, n) ==
    IF n = 0 THEN {<<>>}
    ELSE LET shorter == Documents(tokens, n - 1)
         IN  shorter \cup {d \o t : d \in shorter, t \in tokens}

\* A document, and a range the editor can report for it.
InitWith(docs) ==
    /\ markdown \in docs
    /\ selectionStart \in 0..Len(markdown)
    /\ selectionEnd \in selectionStart..Len(markdown)
    /\ calls = <<>>
    /\ running = "none"
    /\ asked = <<>>
    /\ selection = selectionOf(markdown, selectionStart, selectionEnd)
    /\ isLoading = FALSE
    /\ modalContent = NullModal
    /\ outlinePrompt = <<>>
    /\ flights = <<>>
    /\ settled = <<>>

\* One call of applyFormat on the current document and selection; the host
\* takes the returned document and selection as the current ones, and
\* reports the text of the returned range as the selection.  When
\* applyFormat raises, handleFormat ends there and changes nothing.
Apply(format, answers) ==
    \E r \in {applyFormat(format, markdown, selectionStart, selectionEnd, answers)} :
        /\ markdown' = r.newMarkdown
        /\ selectionStart' = r.newSelection.start
        /\ selectionEnd' = r.newSelection.end
        /\ selection' = IF r.raised THEN selection
                        ELSE selectionOf(r.newMarkdown, r.newSelection.start,
                                         r.newSelection.end)
        /\ asked' = askedOf(format, answers)
        /\ UNCHANGED aiVars
        /\ calls' = Append(calls,
                           [format |-> format,
                            markdown |-> markdown,
                            start |-> selectionStart,
                            end |-> selectionEnd,
                            answers |-> answers,
                            newMarkdown |-> r.newMarkdown,
                            newSelection |-> r.newSelection,
                            raised |-> r.raised])

\* handleFormat(format) as one step, the prompts it issues included.
Call(format, answers) == Apply(format, answers) /\ UNCHANGED running

\* Results of a URL prompt.
UrlAnswers == {Null, Answer(<<>>), Answer(<<"u">>)}

\* Results of the alt text prompt.
AltAnswers == {Null, Answer(<<>>), Answer(<<"x">>)}

\* Results of the width prompt.
WidthAnswers == {Null, Answer(<<>>), Answer(<<"9">>)}

\* Results of a count prompt of the table.
CountAnswers ==
    {Null, Answer(<<>>), Answer(<<"0">>), Answer(<<"1">>), Answer(<<"x">>),
     Answer(<<"-", "1">>), Answer(<<"2", "x">>), Answer(<<"3">>)}

\* Results of a count prompt, counts beyond 2^32 - 1 included.
LargeCountAnswers ==
    CountAnswers \cup {Answer(<<"4", "2", "9", "4", "9", "6", "7", "2", "9", "6">>)}

\* The results the prompts of a format can have, in the order it issues them.
Answers(format) ==
    CASE format = "link" -> {<<url>> : url \in UrlAnswers}
      [] format = "image" ->
            {<<imgUrl, altText, width>> :
                imgUrl \in UrlAnswers, altText \in AltAnswers, width \in WidthAnswers}
      [] format = "table" -> {<<cols, rows>> : cols \in CountAnswers, rows \in CountAnswers}
      [] OTHER -> {<<>>}

\* The results the prompt with the given message can have.
AnswersTo(message) ==
    CASE message \in {"Enter the URL:", "Enter image URL:"} -> UrlAnswers
      [] message = "Enter alt text:" -> AltAnswers
      [] message = "Enter optional width (e.g., 300px or 50%):" -> WidthAnswers
      [] OTHER -> CountAnswers

\* handleFormat(format) is called for one of the given formats and enters
\* applyFormat.
Invoke(formats) ==
    /\ running = "none"
    /\ calls = <<>>
    /\ \E format \in formats : running' = format
    /\ asked' = <<>>
    /\ UNCHANGED <<markdown, selectionStart, selectionEnd, calls, selection, aiVars>>

\* applyFormat issues its next prompt and blocks until it is answered.
Prompt ==
    /\ running # "none"
    /\ promptOf(running, Len(asked)) # "none"
    /\ \E answer \in AnswersTo(promptOf(running, Len(asked))) :
          asked' = Append(asked, [message |-> promptOf(running, Len(asked)),
                                  answer |-> answer])
    /\ UNCHANGED <<markdown, selectionStart, selectionEnd, calls, running,
                   selection, aiVars>>

\* applyFormat has no further prompt to issue: it computes its result from
\* the answers and returns it to handleFormat.
Return ==
    /\ running # "none"
    /\ promptOf(running, Len(asked)) = "none"
    /\ Apply(running, [k \in 1..Len(asked) |-> asked[k].answer])
    /\ running' = "none"

\* handleFormat(format) for one of the given formats, on a document that has
\* not been formatted yet.
Format(formats) ==
    /\ calls = <<>>
    /\ \E format \in formats :
          \E answers \in Answers(format) : Call(format, answers)

\* handleFormat(format) for any format, the table with counts of any size.
FormatAnyCount ==
    /\ calls = <<>>
    /\ \E format \in FormatAction :
          \E answers \in (IF format = "table"
                          THEN {<<cols, rows>> : cols \in LargeCountAnswers,
                                                 rows \in LargeCountAnswers}
                          ELSE Answers(format)) : Call(format, answers)

\* The same format applied again, with the same prompt results, to the
\* document and selection the previous call returned.
Reapply ==
    /\ Len(calls) = 1
    /\ Call(calls[Len(calls)].format, calls[Len(calls)].answers)

\* The format applied once more, to the document and selection the second
\* and later calls returned.
ReapplyAgain ==
    /\ Len(calls) >= 2
    /\ Len(calls) < MaxApplications
    /\ Call(calls[Len(calls)].format, calls[Len(calls)].answers)

-----------------------------------------------------------------------------
(* handleAiAction, src/App.tsx, and the sidebar that calls it.  settled    *)
(* holds the invocation that ended last: its action, its outcome, the text  *)
(* the AI service returned or the message of its error, and whether the     *)
(* document had been edited since the invocation began.                     *)

SelectionActions == {"improve", "summarize_selection", "change_tone"}

DocumentActions == {"summarize_document", "generate_outline", "suggest_titles"}

OutlineFromPrompt == "generate_outline_from_prompt"

\* The enum AiAction.
AiAction == SelectionActions \cup DocumentActions \cup {OutlineFromPrompt}

\* The second argument of handleAiAction: absent, { tone } or { prompt }.
NoOptions == [kind |-> "none", tone |-> "", prompt |-> <<>>]

ToneOptions(tone) == [kind |-> "tone", tone |-> tone, prompt |-> <<>>]

PromptOptions(prompt) == [kind |-> "prompt", tone |-> "", prompt |-> prompt]

SelectMessage == <<"Please select text to perform this action.">>

UnknownMessage == <<"An unknown error occurred.">>

ErrorModal(content) == [isNull |-> FALSE, title |-> "Error", content |-> content]

\* The title of the modal that shows a result.
titleOf(action) ==
    CASE action = "summarize_document" -> "Document Summary"
      [] action = "generate_outline" -> "Generated Outline"
      [] action = "suggest_titles" -> "Suggested Titles"
      [] OTHER -> "AI Result"

\* The way handleAiAction takes through its switch: it reports the missing
\* selection, returns early, or goes on to await the AI service.
pathOf(action, options) ==
    CASE action \in SelectionActions ->
            IF selection.isNull \/ selection.text = <<>>
            THEN "noSelection" ELSE "await"
      [] action \in DocumentActions -> "await"
      [] action = OutlineFromPrompt ->
            IF options.kind # "prompt" \/ options.prompt = <<>>
            THEN "noPrompt" ELSE "await"
      [] OTHER -> "unknown"

\* textToProcess, for the invocations that await the AI service.
textToProcess(action, options) ==
    CASE action \in SelectionActions -> selection.text
      [] action \in DocumentActions -> markdown
      [] OTHER -> options.prompt

\* handleAiAction(action, options) up to its first await or its return.  It
\* calls setIsLoading(true); on its early returns the finally block calls
\* setIsLoading(false) in the same turn, and the later update is the one
\* that is rendered.  The invocation that awaits keeps the markdown and the
\* selection of the render it was created in.
handleAiAction(action, options) ==
    /\ IF pathOf(action, options) = "await"
       THEN /\ flights' = Append(flights,
                                 [action |-> action,
                                  options |-> options,
                                  markdown |-> markdown,
                                  selection |-> selection,
                                  textToProcess |-> textToProcess(action, options)])
            /\ isLoading' = TRUE
            /\ UNCHANGED <<modalContent, settled>>
       ELSE /\ isLoading' = FALSE
            /\ modalContent' = IF pathOf(action, options) = "noSelection"
                               THEN ErrorModal(SelectMessage)
                               ELSE modalContent
            /\ settled' = <<[action |-> action,
                             outcome |-> pathOf(action, options),
                             value |-> <<>>,
                             edited |-> FALSE]>>
            /\ UNCHANGED flights
    /\ UNCHANGED <<markdown, selectionStart, selectionEnd, calls, running, asked,
                   selection, outlinePrompt>>

\* The flights without the i-th.
without(i) == SubSeq(flights, 1, i - 1) \o SubSeq(flights, i + 1, Len(flights))

\* What runAiAction can resolve to.
AiResults == {<<"r">>}

\* What runAiAction can throw: an Error with a message, or another value.
AiErrors == {[isError |-> TRUE, message |-> <<"m">>],
             [isError |-> FALSE, message |-> <<>>]}

\* resolvedMarkdown appending the result of a document action as well.
resolvedMarkdownAppendsAll(f, result) ==
    IF f.action \in SelectionActions /\ ~f.selection.isNull
    THEN substring(f.markdown, 0, f.selection.start) \o result
             \o substringFrom(f.markdown, f.selection.end)
    ELSE trim(markdown) \o <<"\n", "\n">> \o result

\* resolvedMarkdown replacing the selection in the document as it is when
\* the call resolves.
resolvedMarkdownLive(f, result) ==
    IF f.action \in SelectionActions /\ ~f.selection.isNull
    THEN substring(markdown, 0, f.selection.start) \o result
             \o substringFrom(markdown, f.selection.end)
    ELSE IF f.action = OutlineFromPrompt
         THEN trim(markdown) \o <<"\n", "\n">> \o result
         ELSE markdown

\* resolvedMarkdown appending to the document of the invocation.
resolvedMarkdownOutlineSnapshot(f, result) ==
    IF f.action \in SelectionActions /\ ~f.selection.isNull
    THEN substring(f.markdown, 0, f.selection.start) \o result
             \o substringFrom(f.markdown, f.selection.end)
    ELSE IF f.action = OutlineFromPrompt
         THEN trim(f.markdown) \o <<"\n", "\n">> \o result
         ELSE markdown

\* The document handleAiAction sets when the call of flight f has resolved.
resolvedMarkdown(f, result) ==
    IF f.action \in SelectionActions /\ ~f.selection.isNull
    THEN substring(f.markdown, 0, f.selection.start) \o result
             \o substringFrom(f.markdown, f.selection.end)
    ELSE IF f.action = OutlineFromPrompt
         THEN trim(markdown) \o <<"\n", "\n">> \o result
         ELSE markdown

\* resolvedModal showing the result of every action in a modal.
resolvedModalAlways(f, result) ==
    [isNull |-> FALSE, title |-> titleOf(f.action), content |-> result]

\* The modal handleAiAction leaves when the call of flight f has resolved.
resolvedModal(f, result) ==
    IF (f.action \in SelectionActions /\ ~f.selection.isNull)
           \/ f.action = OutlineFromPrompt
    THEN modalContent
    ELSE [isNull |-> FALSE, title |-> titleOf(f.action), content |-> result]

\* runAiAction resolves: handleAiAction goes on after its await.
Resolve ==
    \E i \in 1..Len(flights) : \E result \in AiResults :
        /\ markdown' = resolvedMarkdown(flights[i], result)
        /\ modalContent' = resolvedModal(flights[i], result)
        /\ isLoading' = FALSE
        /\ flights' = without(i)
        /\ settled' = <<[action |-> flights[i].action,
                         outcome |-> "resolved",
                         value |-> result,
                         edited |-> markdown # flights[i].markdown]>>
        /\ UNCHANGED <<selectionStart, selectionEnd, calls, running, asked,
                       selection, outlinePrompt>>

\* Reject without the finally block: isLoading is left as it is.
RejectKeepsLoading ==
    \E i \in 1..Len(flights) : \E error \in AiErrors :
        /\ modalContent' = ErrorModal(IF error.isError THEN error.message
                                      ELSE UnknownMessage)
        /\ flights' = without(i)
        /\ settled' = <<[action |-> flights[i].action,
                         outcome |-> "rejected",
                         value |-> IF error.isError THEN error.message
                                   ELSE UnknownMessage,
                         edited |-> markdown # flights[i].markdown]>>
        /\ UNCHANGED <<markdown, selectionStart, selectionEnd, calls, running,
                       asked, selection, outlinePrompt, isLoading>>

\* runAiAction throws: handleAiAction goes on in its catch block.
Reject ==
    \E i \in 1..Len(flights) : \E error \in AiErrors :
        /\ modalContent' = ErrorModal(IF error.isError THEN error.message
                                      ELSE UnknownMessage)
        /\ isLoading' = FALSE
        /\ flights' = without(i)
        /\ settled' = <<[action |-> flights[i].action,
                         outcome |-> "rejected",
                         value |-> IF error.isError THEN error.message
                                   ELSE UnknownMessage,
                         edited |-> markdown # flights[i].markdown]>>
        /\ UNCHANGED <<markdown, selectionStart, selectionEnd, calls, running,
                       asked, selection, outlinePrompt>>

\* The documents of the specifications of the AI actions.
AiDocuments == {<<>>, <<"a">>, <<"a", "b">>, <<" ", "a", " ">>}

\* Editor onChange: the user changes the text to another document.
Edit ==
    /\ \E value \in AiDocuments \ {markdown} : markdown' = value
    /\ UNCHANGED <<selectionStart, selectionEnd, calls, running, asked,
                   selection, aiVars>>

\* Editor onSelect: the user selects a range of the text or places the caret.
Select ==
    /\ \E start \in 0..Len(markdown) : \E end \in start..Len(markdown) :
          /\ selectionStart' = start
          /\ selectionEnd' = end
          /\ selection' = selectionOf(markdown, start, end)
    /\ <<selectionStart', selectionEnd'>> # <<selectionStart, selectionEnd>>
    /\ UNCHANGED <<markdown, calls, running, asked, aiVars>>

\* Modal onClose.
CloseModal ==
    /\ ~modalContent.isNull
    /\ modalContent' = NullModal
    /\ UNCHANGED <<markdown, selectionStart, selectionEnd, calls, running, asked,
                   selection, isLoading, outlinePrompt, flights, settled>>

\* The arguments handleAiAction is called with: every action, and a value
\* that is none of them; no options, a tone, an empty or a non-empty prompt.
AiInputs ==
    (AiAction \cup {"other"})
        \X {NoOptions, ToneOptions("Professional"), PromptOptions(<<>>),
            PromptOptions(<<"p">>)}

\* handleAiAction is called, no earlier invocation having ended or being
\* under way.
InvokeAi ==
    /\ settled = <<>>
    /\ flights = <<>>
    /\ \E input \in AiInputs : handleAiAction(input[1], input[2])

\* The prop selectionActive of the sidebar: !!selection?.text
selectionActive == ~selection.isNull /\ selection.text # <<>>

\* The enum Tone.
Tone == {"Professional", "Casual", "Friendly", "Confident", "Humorous"}

\* The ActionButtons of the sidebar, and whether each requires a selection.
ActionButtons ==
    {[action |-> "improve", requiresSelection |-> TRUE],
     [action |-> "summarize_selection", requiresSelection |-> TRUE],
     [action |-> "summarize_document", requiresSelection |-> FALSE],
     [action |-> "generate_outline", requiresSelection |-> FALSE],
     [action |-> "suggest_titles", requiresSelection |-> FALSE]}

\* isButtonDisabled of an ActionButton whose prop disabled is isLoading
\* without the test of isLoading.
isButtonDisabledIgnoresLoading(button) ==
    button.requiresSelection /\ ~selectionActive

\* isButtonDisabled of an ActionButton; its prop disabled is isLoading.
isButtonDisabled(button) ==
    isLoading \/ isLoading \/ (button.requiresSelection /\ ~selectionActive)

\* A click on an ActionButton of the sidebar.
ClickActionButton ==
    \E button \in ActionButtons :
        /\ ~isButtonDisabled(button)
        /\ handleAiAction(button.action, NoOptions)

\* A click on the Change Tone button, with the tone chosen in the select.
ClickChangeTone ==
    /\ ~(isLoading \/ ~selectionActive)
    /\ \E selectedTone \in Tone :
          handleAiAction("change_tone", ToneOptions(selectedTone))

\* A click on the Generate Outline button below the prompt.
ClickGenerateOutline ==
    /\ ~(isLoading \/ trim(outlinePrompt) = <<>>)
    /\ handleAiAction(OutlineFromPrompt, PromptOptions(outlinePrompt))

\* The texts typed into the prompt of the sidebar.
OutlinePrompts == {<<>>, <<" ">>, <<"p">>}

\* onChange of the prompt of the sidebar, which is disabled while isLoading.
TypeOutlinePrompt ==
    /\ ~isLoading
    /\ \E value \in OutlinePrompts \ {outlinePrompt} : outlinePrompt' = value
    /\ UNCHANGED <<markdown, selectionStart, selectionEnd, calls, running, asked,
                   selection, isLoading, modalContent, flights, settled>>

-----------------------------------------------------------------------------
(* Specifications. *)

Newline == <<"\n">>

AllTokens == {<<"a">>, <<" ">>, Newline, <<"#", " ">>, <<"-", " ">>, <<"1", ".", " ">>}

InlineTokens == {<<"a">>, <<"*">>, <<" ">>, Newline}

HeadingTokens == {<<"a">>, <<" ">>, Newline, <<"#">>, <<"#", " ">>}

UlTokens == {<<"a">>, <<" ">>, Newline, <<"-", " ">>, <<"-", " ", "a">>}

OlTokens ==
    {<<"a">>, <<" ">>, Newline, <<"1">>, <<"1", ".", " ">>, <<"2", ".", " ", "a">>}

Init == InitWith(Documents(AllTokens, MaxTokensAll))

Next == Format(FormatAction)

\* Every format, applied to every small document.
Spec == Init /\ [][Next]_vars

InitInline == InitWith(Documents(InlineTokens, MaxTokens))

NextInline == Format(InlineFormats) \/ Reapply \/ ReapplyAgain

\* The inline formats.
SpecInline == InitInline /\ [][NextInline]_vars

InitHeading == InitWith(Documents(HeadingTokens, MaxTokens))

NextHeading == Format(HeadingFormats) \/ Reapply

\* The heading formats.
SpecHeading == InitHeading /\ [][NextHeading]_vars

InitList ==
    InitWith(Documents(UlTokens, MaxTokens) \cup Documents(OlTokens, MaxTokens))

NextList == Format(ListFormats) \/ Reapply

\* The list formats.
SpecList == InitList /\ [][NextList]_vars

NextAnyCount == FormatAnyCount

\* Every format, applied to every small document with every answer.
SpecAnyCount == Init /\ [][NextAnyCount]_vars

PromptTokens == {<<"a">>, <<"b">>, Newline}

InitProtocol == InitWith(Documents(PromptTokens, MaxTokensAll))

NextProtocol == Invoke(FormatAction) \/ Prompt \/ Return

\* Every format, with the prompts of applyFormat as steps of their own.
SpecProtocol == InitProtocol /\ [][NextProtocol]_vars

InitPrompt == InitWith(Documents(PromptTokens, MaxTokens))

NextPrompt == Format(PromptFormats)

\* The formats that prompt: link, image and table.
SpecPrompt == InitPrompt /\ [][NextPrompt]_vars

InitAi == InitWith(AiDocuments)

NextAi == InvokeAi \/ Resolve \/ Reject \/ Edit \/ Select \/ CloseModal

\* handleAiAction called once, while the user edits, selects and closes
\* the modal.
SpecAi == InitAi /\ [][NextAi]_vars

\* The longest document on which the sidebar is still clicked.
MaxMarkdownLen == 4

NextSidebar ==
    \/ Len(markdown) <= MaxMarkdownLen /\ ClickActionButton
    \/ Len(markdown) <= MaxMarkdownLen /\ ClickChangeTone
    \/ Len(markdown) <= MaxMarkdownLen /\ ClickGenerateOutline
    \/ TypeOutlinePrompt
    \/ Resolve \/ Reject \/ CloseModal

\* The AI actions started from the sidebar, any number of times.
SpecSidebar == InitAi /\ [][NextSidebar]_vars

\* The same, the call of the AI service eventually returning or throwing.
SpecAiLive == SpecAi /\ WF_vars(Resolve \/ Reject)

-----------------------------------------------------------------------------
(* Vocabulary of the properties. *)

\* The range a call was given is a Range of its document.
ValidInput(c) == 0 <= c.start /\ c.start <= c.end /\ c.end <= Len(c.markdown)

\* The calls made on a valid range.
ValidCalls == {i \in DOMAIN calls : ValidInput(calls[i])}

\* The range a call returned is a Range of the document it returned.
RangeInBounds(c) ==
    /\ 0 <= c.newSelection.start
    /\ c.newSelection.start <= c.newSelection.end
    /\ c.newSelection.end <= Len(c.newMarkdown)

\* s[a..b) for offsets 0 <= a <= b <= Len(s)
Slice(s, a, b) == SubSeq(s, a + 1, b)

IsPrefixOf(p, s) == Len(p) <= Len(s) /\ SubSeq(s, 1, Len(p)) = p

IsSuffixOf(p, s) ==
    Len(p) <= Len(s) /\ SubSeq(s, Len(s) - Len(p) + 1, Len(s)) = p

\* The offset just after the last newline strictly before start, or 0.
LineStartOf(doc, start) ==
    LET nls == {i \in 0..(start - 1) : doc[i + 1] = "\n"}
    IN  IF nls = {} THEN 0 ELSE 1 + CHOOSE i \in nls : \A j \in nls : j <= i

\* The offset of the first newline at or after start, or the length.
LineEndOf(doc, start) ==
    LET nls == {i \in start..(Len(doc) - 1) : doc[i + 1] = "\n"}
    IN  IF nls = {} THEN Len(doc) ELSE CHOOSE i \in nls : \A j \in nls : i <= j

\* The line of the document that contains the offset start.
LineOf(doc, start) == Slice(doc, LineStartOf(doc, start), LineEndOf(doc, start))

-----------------------------------------------------------------------------
(* C1 *)

\* C1: for every format, document, valid range and prompt results, the
\* range applyFormat returns lies within the document it returns:
\* 0 <= newStart <= newEnd <= Len(newMarkdown).
C1_RangeInBounds == \A i \in ValidCalls : RangeInBounds(calls[i])

\* Every call outside the removal of a heading prefix returns a range
\* within the document it returns.
C1_InBoundsUnlessHeadingRemoved ==
    \A i \in ValidCalls :
        \/ RangeInBounds(calls[i])
        \/ /\ calls[i].format \in HeadingFormats
           /\ Len(calls[i].newMarkdown) < Len(calls[i].markdown)

-----------------------------------------------------------------------------
(* C2 *)

\* The returned document keeps doc[0..a) at its start and doc[b..) at its
\* end, the two not overlapping: only doc[a..b) is edited.
EditedWithin(c, a, b) ==
    /\ IsPrefixOf(Slice(c.markdown, 0, a), c.newMarkdown)
    /\ IsSuffixOf(Slice(c.markdown, b, Len(c.markdown)), c.newMarkdown)
    /\ a + (Len(c.markdown) - b) <= Len(c.newMarkdown)

\* C2 as claimed: for every format, headings included, and every valid
\* range, the returned document keeps the text before start and the text
\* after end; only the span between them is edited.
C2_LocalToRange ==
    \A i \in ValidCalls : EditedWithin(calls[i], calls[i].start, calls[i].end)

\* C2 as amended: for every format other than h1..h6 the returned document
\* keeps the text before start and the text after end; for h1..h6 it keeps
\* the text before the start of the line containing start and the text from
\* the end of that line on.
C2_LocalToRangeOrLine ==
    \A i \in ValidCalls :
        LET c == calls[i]
        IN  IF c.format \in HeadingFormats
            THEN EditedWithin(c, LineStartOf(c.markdown, c.start),
                              LineEndOf(c.markdown, c.start))
            ELSE EditedWithin(c, c.start, c.end)

\* A heading was applied on a valid range and changed the text before start.
C2_Witness ==
    \E i \in ValidCalls :
        /\ calls[i].format \in HeadingFormats
        /\ ~IsPrefixOf(Slice(calls[i].markdown, 0, calls[i].start),
                       calls[i].newMarkdown)

-----------------------------------------------------------------------------
(* C3 *)

\* The delimiter the claim names for each inline format.
C3_Token(format) ==
    CASE format = "bold" -> <<"*", "*">>
      [] format = "italic" -> <<"*">>
      [] format = "strikethrough" -> <<"~", "~">>
      [] format = "code" -> <<Backtick>>

\* C3: an inline format with delimiter tok turns the document into
\* doc[0..start) + tok + doc[start..end) + tok + doc[end..) and returns the
\* range of the inner text, newStart = start + Len(tok) and
\* newEnd = newStart + (end - start); bold on an empty selection inserts
\* "****" and returns the caret {start + 2, start + 2}.
C3_InlineWrap ==
    \A i \in ValidCalls :
        LET c == calls[i]
            tok == C3_Token(c.format)
        IN  c.format \in InlineFormats =>
              /\ c.newMarkdown =
                     Slice(c.markdown, 0, c.start) \o tok
                         \o Slice(c.markdown, c.start, c.end) \o tok
                         \o Slice(c.markdown, c.end, Len(c.markdown))
              /\ c.newSelection.start = c.start + Len(tok)
              /\ c.newSelection.end = c.newSelection.start + (c.end - c.start)
              /\ (c.format = "bold" /\ c.start = c.end) =>
                    /\ c.newMarkdown =
                           Slice(c.markdown, 0, c.start) \o <<"*", "*", "*", "*">>
                               \o Slice(c.markdown, c.end, Len(c.markdown))
                    /\ c.newSelection = [start |-> c.start + 2, end |-> c.start + 2]

\* Bold was applied to an empty selection inside a document, and an inline
\* format to a non-empty selection.
C3_Witness ==
    /\ Len(calls) = 2
    /\ calls[1].format = "bold"
    /\ calls[1].start = calls[1].end
    /\ 0 < calls[1].start /\ calls[1].start < Len(calls[1].markdown)
    /\ ValidInput(calls[2])

-----------------------------------------------------------------------------
(* Vocabulary of the heading properties. *)

\* The calls of a heading format made on a valid range.
HeadingCalls == {i \in ValidCalls : calls[i].format \in HeadingFormats}

\* The level N of the heading format hN.
HeadingLevel(format) ==
    CASE format = "h1" -> 1 [] format = "h2" -> 2 [] format = "h3" -> 3
      [] format = "h4" -> 4 [] format = "h5" -> 5 [] format = "h6" -> 6

\* '#' repeated N times and a space.
HashesAndSpace(n) == [k \in 1..n |-> "#"] \o <<" ">>

\* The line, with surrounding white space trimmed, starts with p.
TrimmedStartsWith(line, p) == IsPrefixOf(p, trim(line))

\* The offset of the first occurrence of p in line (p occurs in line).
FirstOccurrence(line, p) ==
    CHOOSE i \in 0..(Len(line) - Len(p)) :
        /\ Slice(line, i, i + Len(p)) = p
        /\ \A j \in 0..(i - 1) : Slice(line, j, j + Len(p)) # p

\* The line with the first occurrence of p removed.
WithoutFirst(line, p) ==
    Slice(line, 0, FirstOccurrence(line, p))
        \o Slice(line, FirstOccurrence(line, p) + Len(p), Len(line))

\* The document begins with a newline and the range starts at offset 0.
AtLeadingNewline(c) == c.start = 0 /\ c.markdown # <<>> /\ c.markdown[1] = "\n"

-----------------------------------------------------------------------------
(* C4 *)

\* C4: a heading edits only the single line containing start, whatever end
\* is: the line it takes runs from the offset after the last newline before
\* start (or 0) to the first newline at or after start (or the length), so
\* lineStart <= start <= lineEnd, and the returned document is
\* doc[0..lineStart) + editedLine + doc[lineEnd..) with editedLine one line;
\* this includes start = 0 in a document that begins with a newline.
C4_SingleLine ==
    \A i \in HeadingCalls :
        LET c == calls[i]
            lineStart == LineStartOf(c.markdown, c.start)
            lineEnd == LineEndOf(c.markdown, c.start)
            editedLine == Slice(c.newMarkdown, lineStart,
                                Len(c.newMarkdown) - (Len(c.markdown) - lineEnd))
        IN  /\ prefixLineStart(c.markdown, c.start) = lineStart
            /\ prefixLineEnd(c.markdown, c.start) = lineEnd
            /\ lineStart <= c.start /\ c.start <= lineEnd
            /\ EditedWithin(c, lineStart, lineEnd)
            /\ \A k \in 1..Len(editedLine) : editedLine[k] # "\n"

\* C4 holds of every call except at offset 0 of a document that begins with
\* a newline.
C4_SingleLineUnlessLeadingNewline ==
    \A i \in HeadingCalls :
        LET c == calls[i]
            lineStart == LineStartOf(c.markdown, c.start)
            lineEnd == LineEndOf(c.markdown, c.start)
            editedLine == Slice(c.newMarkdown, lineStart,
                                Len(c.newMarkdown) - (Len(c.markdown) - lineEnd))
        IN  \/ AtLeadingNewline(c)
            \/ /\ prefixLineStart(c.markdown, c.start) = lineStart
               /\ prefixLineEnd(c.markdown, c.start) = lineEnd
               /\ EditedWithin(c, lineStart, lineEnd)
               /\ \A k \in 1..Len(editedLine) : editedLine[k] # "\n"

-----------------------------------------------------------------------------
(* C5 *)

\* The returned document is the given one with the line containing start
\* toggled: the prefix p removed when the trimmed line starts with it, and
\* put in front of the unchanged line otherwise.
Toggled(c, p) ==
    LET lineStart == LineStartOf(c.markdown, c.start)
        lineEnd == LineEndOf(c.markdown, c.start)
        line == LineOf(c.markdown, c.start)
        before == Slice(c.markdown, 0, lineStart)
        after == Slice(c.markdown, lineEnd, Len(c.markdown))
    IN  IF TrimmedStartsWith(line, p)
        THEN /\ c.newMarkdown = before \o WithoutFirst(line, p) \o after
             /\ Len(c.newMarkdown) = Len(c.markdown) - Len(p)
        ELSE /\ c.newMarkdown = before \o p \o line \o after
             /\ Len(c.newMarkdown) = Len(c.markdown) + Len(p)

\* C5: for hN with prefix P ('#' N times and a space), if the line containing
\* start, trimmed, starts with P, the edited line is the line with the first
\* occurrence of P removed; otherwise it is P followed by the unchanged
\* line. A line with a different heading level counts as not prefixed.
C5_ToggleRule ==
    \A i \in HeadingCalls :
        Toggled(calls[i], HashesAndSpace(HeadingLevel(calls[i].format)))

\* C5 holds of every call except at offset 0 of a document that begins with
\* a newline.
C5_ToggleRuleUnlessLeadingNewline ==
    \A i \in HeadingCalls :
        \/ AtLeadingNewline(calls[i])
        \/ Toggled(calls[i], HashesAndSpace(HeadingLevel(calls[i].format)))

-----------------------------------------------------------------------------
(* C6 *)

\* h1 was applied on a valid range and then applied again at the selection
\* the first call returned.
H1Twice ==
    /\ Len(calls) = 2
    /\ calls[1].format = "h1"
    /\ ValidInput(calls[1])

\* C6: applying h1 to a line and applying h1 again at the returned
\* selection restores the original line, and so the original document,
\* exactly; empty lines, white-space-only lines and lines with white space
\* before an existing '# ' included.
C6_HeadingRoundTrip == H1Twice => calls[2].newMarkdown = calls[1].markdown

\* The round trip holds when the line containing start has something other
\* than white space on it and does not yet carry the prefix.
C6_RoundTripOnPlainLines ==
    LET c == calls[1]
        line == LineOf(c.markdown, c.start)
    IN  (/\ H1Twice
         /\ trim(line) # <<>>
         /\ ~TrimmedStartsWith(line, <<"#", " ">>))
        => calls[2].newMarkdown = c.markdown

-----------------------------------------------------------------------------
(* C7 *)

\* C7: when a heading adds its prefix of length L, the returned range is
\* (start + L, end + L); when it removes the prefix, the returned range is
\* (start - L, end - L) with the start clamped at the start of the edited
\* line, so newStart >= lineStart for every input.
C7_SelectionShift ==
    \A i \in HeadingCalls :
        LET c == calls[i]
            p == HashesAndSpace(HeadingLevel(c.format))
            lineStart == LineStartOf(c.markdown, c.start)
        IN  /\ c.newSelection.start >= lineStart
            /\ IF TrimmedStartsWith(LineOf(c.markdown, c.start), p)
               THEN /\ c.newSelection.start = Max(lineStart, c.start - Len(p))
                    /\ c.newSelection.end = c.end - Len(p)
               ELSE /\ c.newSelection.start = c.start + Len(p)
                    /\ c.newSelection.end = c.end + Len(p)

\* A heading prefix was removed from a line other than the first with the
\* range starting inside the prefix, so that the clamp acted, and the prefix
\* was then added again.
C7_Witness ==
    /\ Len(calls) = 2
    /\ \A i \in 1..2 : ValidInput(calls[i])
    /\ Len(calls[1].newMarkdown) < Len(calls[1].markdown)
    /\ LineStartOf(calls[1].markdown, calls[1].start) > 0
    /\ calls[1].newSelection.start > calls[1].start - 2
    /\ Len(calls[2].newMarkdown) > Len(calls[2].markdown)

-----------------------------------------------------------------------------
(* Vocabulary of the list properties. *)

\* The calls of a format made on a valid range.
CallsOf(format) == {i \in ValidCalls : calls[i].format = format}

\* The selected text doc[start..end) of a call, split on newline.
SelectedLines(c) == split(Slice(c.markdown, c.start, c.end))

\* The text that stands in the returned document for doc[start..end).
NewBlock(c) ==
    Slice(c.newMarkdown, c.start, Len(c.newMarkdown) - (Len(c.markdown) - c.end))

\* The lines of that text.
NewLines(c) == split(NewBlock(c))

\* The line is detected as numbered: trimmed, it starts with digits, a dot
\* and a white space character.
DetectedNumbered(line) == numberedTest(trim(line))

\* What follows the leading 'N. ' of a line detected as numbered.
AfterNumber(line) ==
    SubSeq(trim(line), numberedMatch(trim(line)) + 1, Len(trim(line)))

-----------------------------------------------------------------------------
(* C8 *)

\* C8: ul splits doc[start..end) on newline; if every line, trimmed, starts
\* with '- ', the prefix is removed from every line; otherwise '- ' is put
\* in front of exactly the lines that do not start with it and the others
\* are left unchanged.  Lines [a, '- b'] become ['- a', '- b'], and ul
\* again gives [a, b].
C8_UnorderedList ==
    \A i \in CallsOf("ul") :
        LET c == calls[i]
            lines == SelectedLines(c)
            new == NewLines(c)
            has(k) == TrimmedStartsWith(lines[k], <<"-", " ">>)
        IN  /\ EditedWithin(c, c.start, c.end)
            /\ Len(new) = Len(lines)
            /\ IF \A k \in 1..Len(lines) : has(k)
               THEN \A k \in 1..Len(lines) :
                        new[k] = WithoutFirst(lines[k], <<"-", " ">>)
               ELSE \A k \in 1..Len(lines) :
                        new[k] = IF has(k) THEN lines[k]
                                 ELSE <<"-", " ">> \o lines[k]

\* ul was applied to the two selected lines [a, '- a'] and then again.
C8_Witness ==
    /\ Len(calls) = 2
    /\ calls[1].format = "ul"
    /\ ValidInput(calls[1]) /\ ValidInput(calls[2])
    /\ SelectedLines(calls[1]) = << <<"a">>, <<"-", " ", "a">> >>
    /\ NewLines(calls[1]) = << <<"-", " ", "a">>, <<"-", " ", "a">> >>
    /\ NewLines(calls[2]) = << <<"a">>, <<"a">> >>

-----------------------------------------------------------------------------
(* C9 *)

\* Every selected line of the call is detected as numbered.
AllNumbered(c) ==
    \A k \in 1..Len(SelectedLines(c)) : DetectedNumbered(SelectedLines(c)[k])

\* The leading 'N. ' is gone from line k of the result.
NumberRemoved(c, k) ==
    /\ Len(NewLines(c)[k]) < Len(SelectedLines(c)[k])
    /\ trim(NewLines(c)[k]) = trim(AfterNumber(SelectedLines(c)[k]))

\* C9: for ol, whenever every selected line is detected as numbered, the
\* result has the leading 'N. ' removed from each line, lines with white
\* space before the number included.
C9_OrderedListStrip ==
    \A i \in CallsOf("ol") :
        AllNumbered(calls[i]) =>
            /\ Len(NewLines(calls[i])) = Len(SelectedLines(calls[i]))
            /\ \A k \in 1..Len(SelectedLines(calls[i])) : NumberRemoved(calls[i], k)

\* C9 holds of the selections in which no line begins with white space.
C9_StripUnlessIndented ==
    \A i \in CallsOf("ol") :
        (/\ AllNumbered(calls[i])
         /\ \A k \in 1..Len(SelectedLines(calls[i])) :
                trimStart(SelectedLines(calls[i])[k]) = SelectedLines(calls[i])[k])
        => /\ Len(NewLines(calls[i])) = Len(SelectedLines(calls[i]))
           /\ \A k \in 1..Len(SelectedLines(calls[i])) : NumberRemoved(calls[i], k)

-----------------------------------------------------------------------------
(* C10 *)

\* C10: for ol, whenever not every selected line is detected as numbered,
\* line k of the result is 'k. ' followed by line k of the selection,
\* counting from 1 whatever numbers the lines carry, and the number of
\* lines is unchanged.
C10_OrderedListNumbering ==
    \A i \in CallsOf("ol") :
        LET c == calls[i]
            lines == SelectedLines(c)
            new == NewLines(c)
        IN  ~AllNumbered(c) =>
              /\ EditedWithin(c, c.start, c.end)
              /\ Len(new) = Len(lines)
              /\ \A k \in 1..Len(lines) :
                    new[k] = numberToString(k) \o <<".", " ">> \o lines[k]

\* ol was applied to two selected lines of which the first carried a
\* number and the second did not.
C10_Witness ==
    \E i \in CallsOf("ol") :
        /\ SelectedLines(calls[i]) = << <<"2", ".", " ", "a">>, <<"a">> >>
        /\ NewLines(calls[i]) =
               << <<"1", ".", " ", "2", ".", " ", "a">>, <<"2", ".", " ", "a">> >>

-----------------------------------------------------------------------------
(* C11 *)

\* C11: for ul and for ol, the returned range is [start, start + len(newBlock)]
\* with newBlock the text that replaces doc[start..end), so that the returned
\* range of the returned document reads exactly the edited block.
C11_ListRange ==
    \A i \in CallsOf("ul") \cup CallsOf("ol") :
        LET c == calls[i]
        IN  /\ EditedWithin(c, c.start, c.end)
            /\ c.newSelection.start = c.start
            /\ c.newSelection.end = c.start + Len(NewBlock(c))
            /\ Slice(c.newMarkdown, c.newSelection.start, c.newSelection.end)
                   = NewBlock(c)

\* ol was applied and applied again, and each time it changed the length of
\* a non-empty selection that is followed by more text.
C11_Witness ==
    /\ Len(calls) = 2
    /\ calls[1].format = "ol"
    /\ \A i \in 1..2 :
          /\ ValidInput(calls[i])
          /\ calls[i].start < calls[i].end
          /\ calls[i].end < Len(calls[i].markdown)
          /\ Len(NewBlock(calls[i])) # calls[i].end - calls[i].start

-----------------------------------------------------------------------------
(* C12 *)

\* The line carries the list prefix of the format, as the format detects it.
CarriesListPrefix(format, line) ==
    IF format = "ul" THEN TrimmedStartsWith(line, <<"-", " ">>)
    ELSE DetectedNumbered(line)

\* A list format was applied to a selection in which no line carries its
\* prefix, and then again to the returned selection.
ListTwice ==
    /\ Len(calls) = 2
    /\ calls[1].format \in ListFormats
    /\ ValidInput(calls[1])
    /\ \A k \in 1..Len(SelectedLines(calls[1])) :
          ~CarriesListPrefix(calls[1].format, SelectedLines(calls[1])[k])

\* The second call gave back the document and the range of the first.
RoundTrip ==
    /\ calls[2].newMarkdown = calls[1].markdown
    /\ calls[2].newSelection.start = calls[1].start
    /\ calls[2].newSelection.end = calls[1].end

\* C12: for ul and for ol, from a selection in which no line carries the
\* list prefix, applying the format and applying it again to the returned
\* selection restores the document and the range, for the empty selection
\* and for selections with empty or white-space-only lines as well.
C12_ListRoundTrip == ListTwice => RoundTrip

\* C12 holds of the selections all of whose lines hold a character that is
\* not white space.
C12_RoundTripOnNonBlankLines ==
    (/\ ListTwice
     /\ \A k \in 1..Len(SelectedLines(calls[1])) :
           trim(SelectedLines(calls[1])[k]) # <<>>)
    => RoundTrip

-----------------------------------------------------------------------------
(* C13 *)

\* The delimiter tok written k times in a row.
Nested(tok, k) == [j \in 1..(k * Len(tok)) |-> tok[((j - 1) % Len(tok)) + 1]]

\* C13: an inline format applied k >= 1 times in a row, each time to the
\* returned selection, nests the delimiters: the document is the original
\* with the selected text x between k delimiters on either side (bold on
\* 'a' gives '**a**', then '****a****'), it is 2 * k * len(tok) longer than
\* the original and it is never the original.
C13_InlineNests ==
    (calls # <<>> /\ calls[1].format \in InlineFormats /\ ValidInput(calls[1])) =>
        LET first == calls[1]
            k == Len(calls)
            tok == C3_Token(first.format)
            x == Slice(first.markdown, first.start, first.end)
            new == calls[k].newMarkdown
        IN  /\ new = Slice(first.markdown, 0, first.start)
                         \o Nested(tok, k) \o x \o Nested(tok, k)
                         \o Slice(first.markdown, first.end, Len(first.markdown))
            /\ Len(new) = Len(first.markdown) + 2 * k * Len(tok)
            /\ new # first.markdown
            /\ (first.format = "bold" /\ x = <<"a">> /\ k = 2) =>
                   Slice(new, first.start, first.start + 9)
                       = <<"*", "*", "*", "*", "a", "*", "*", "*", "*">>

\* Bold was applied three times in a row, first to a selected 'a' that has
\* text on both sides.
C13_Witness ==
    /\ Len(calls) = 3
    /\ calls[1].format = "bold"
    /\ 0 < calls[1].start /\ calls[1].end < Len(calls[1].markdown)
    /\ Slice(calls[1].markdown, calls[1].start, calls[1].end) = <<"a">>
    /\ Len(calls[3].newMarkdown) = Len(calls[1].markdown) + 12

-----------------------------------------------------------------------------
(* Vocabulary of the prompt properties. *)

\* The prompt was declined, or answered with the empty string.
DeclinedOrEmpty(a) == a = Null \/ a = Answer(<<>>)

\* The count the table reads from a prompt result.
CountOf(a) == parseInt(orDefault(a, DefaultCount))

\* The count is a number greater than zero.
ValidCount(n) == ~n.nan /\ n.val > 0

\* The call took the branch that reinserts the selection: no URL for link
\* and image, a count that is not a number greater than zero for table.
EndsAsNoOp(c) ==
    CASE c.format \in {"link", "image"} -> ~truthy(c.answers[1])
      [] c.format = "table" ->
            ~(ValidCount(CountOf(c.answers[1])) /\ ValidCount(CountOf(c.answers[2])))
      [] OTHER -> FALSE

\* The returned selection is the caret at offset p.
CaretAt(c, p) == c.newSelection = [start |-> p, end |-> p]

-----------------------------------------------------------------------------
(* C14 *)

\* C14: when the URL prompt of link is declined or answered with the empty
\* string, the returned document is the document and the returned selection
\* is the caret {end, end} at the end of the original selection.
C14_LinkDeclined ==
    \A i \in CallsOf("link") :
        DeclinedOrEmpty(calls[i].answers[1]) =>
            /\ calls[i].newMarkdown = calls[i].markdown
            /\ CaretAt(calls[i], calls[i].end)

\* The URL prompt of link was answered with the empty string while text
\* inside the document was selected.
C14_Witness ==
    \E i \in CallsOf("link") :
        /\ calls[i].answers[1] = Answer(<<>>)
        /\ 0 < calls[i].start
        /\ calls[i].start < calls[i].end
        /\ calls[i].end < Len(calls[i].markdown)
        /\ CaretAt(calls[i], calls[i].end)

-----------------------------------------------------------------------------
(* C15 *)

\* The calls of link, image and table on a valid range that end as a no-op.
NoOpCalls == {i \in ValidCalls : EndsAsNoOp(calls[i])}

\* C15 as claimed: whenever link, image or table ends as a no-op, the
\* document and the selection are returned unchanged: newDocument = document
\* and (newStart, newEnd) = (start, end), also when start < end.
C15_NoOpKeepsSelection ==
    \A i \in NoOpCalls :
        /\ calls[i].newMarkdown = calls[i].markdown
        /\ calls[i].newSelection = [start |-> calls[i].start, end |-> calls[i].end]

\* C15 as amended: whenever link, image or table ends as a no-op, the
\* document is returned unchanged and the returned selection is the caret
\* {end, end}; it is the selection given only when start = end.
C15_NoOpCollapsesToEnd ==
    \A i \in NoOpCalls :
        /\ calls[i].newMarkdown = calls[i].markdown
        /\ CaretAt(calls[i], calls[i].end)
        /\ (calls[i].newSelection = [start |-> calls[i].start, end |-> calls[i].end])
               <=> (calls[i].start = calls[i].end)

\* The table ended as a no-op on a count of zero while text was selected.
C15_Witness ==
    \E i \in NoOpCalls :
        /\ calls[i].format = "table"
        /\ calls[i].answers[1] = Answer(<<"0">>)
        /\ calls[i].start < calls[i].end
        /\ calls[i].newMarkdown = calls[i].markdown

-----------------------------------------------------------------------------
(* C16 *)

\* Every prompt the call issued was declined.
AllDeclined(c) == \A k \in 1..PromptCount(c.format) : c.answers[k] = Null

\* The calls of link, image and table on a valid range.
PromptCalls == {i \in ValidCalls : calls[i].format \in PromptFormats}

\* C16: for link, image and table, when every prompt the format issues is
\* declined, nothing is inserted: the returned document is the document.
C16_DecliningCancels ==
    \A i \in PromptCalls :
        AllDeclined(calls[i]) => calls[i].newMarkdown = calls[i].markdown

\* C16 holds of link and image.
C16_DecliningCancelsLinkAndImage ==
    \A i \in PromptCalls :
        (AllDeclined(calls[i]) /\ calls[i].format # "table")
            => calls[i].newMarkdown = calls[i].markdown

-----------------------------------------------------------------------------
(* C17 *)

\* The prompt result is a positive integer: digits only, at least one, and
\* not all of them zero.
IsPositiveInteger(a) ==
    /\ a.given
    /\ a.text # <<>>
    /\ \A k \in 1..Len(a.text) : a.text[k] \in Digits
    /\ \E k \in 1..Len(a.text) : a.text[k] # "0"

\* C17: for table, when the column answer or the row answer is not a
\* positive integer (text that is not a number, zero, a negative number),
\* the returned document is the document; a table is inserted only when
\* both answers are positive integers.
C17_TableValidation ==
    \A i \in CallsOf("table") :
        ~(IsPositiveInteger(calls[i].answers[1])
            /\ IsPositiveInteger(calls[i].answers[2]))
        => calls[i].newMarkdown = calls[i].markdown

\* C17 holds of the answers with no digit in front and of zero: 'x', '-1'
\* and '0' for either count give back the document.
C17_NoOpOnZeroNegativeOrNoDigit ==
    \A i \in CallsOf("table") :
        (\E k \in 1..2 :
            calls[i].answers[k] \in
                {Answer(<<"x">>), Answer(<<"-", "1">>), Answer(<<"0">>)})
        => calls[i].newMarkdown = calls[i].markdown

-----------------------------------------------------------------------------
(* C18 *)

\* The text that stands in the returned document for doc[start..end) is
\* text, the rest of the document is kept and the caret is after text.
Inserted(c, text) ==
    /\ c.newMarkdown = Slice(c.markdown, 0, c.start) \o text
                           \o Slice(c.markdown, c.end, Len(c.markdown))
    /\ CaretAt(c, c.start + Len(text))

\* A row of n cells: '| ', the cells with ' | ' between them, ' |'.
RECURSIVE RowOf(_, _)
RowOf(n, cell) ==
    IF n = 1 THEN <<"|", " ">> \o cell \o <<" ", "|">>
    ELSE SubSeq(RowOf(n - 1, cell), 1, Len(RowOf(n - 1, cell)) - 2)
             \o <<" ", "|", " ">> \o cell \o <<" ", "|">>

\* n body rows of cols cells, with a newline between them.
RECURSIVE BodyOf(_, _)
BodyOf(n, cols) ==
    IF n = 1 THEN RowOf(cols, <<"C", "e", "l", "l">>)
    ELSE BodyOf(n - 1, cols) \o <<"\n">> \o RowOf(cols, <<"C", "e", "l", "l">>)

\* The table block of cols columns and rows body rows.
BlockOf(cols, rows) ==
    <<"\n">> \o RowOf(cols, <<"H", "e", "a", "d", "e", "r">>)
        \o <<"\n">> \o RowOf(cols, <<"-", "-", "-">>)
        \o <<"\n">> \o BodyOf(rows, cols) \o <<"\n">>

\* The block for 3 columns and 1 row.
Block3x1 ==
    <<"\n", "|", " ", "H", "e", "a", "d", "e", "r", " ", "|", " ",
      "H", "e", "a", "d", "e", "r", " ", "|", " ",
      "H", "e", "a", "d", "e", "r", " ", "|",
      "\n", "|", " ", "-", "-", "-", " ", "|", " ", "-", "-", "-", " ", "|", " ",
      "-", "-", "-", " ", "|",
      "\n", "|", " ", "C", "e", "l", "l", " ", "|", " ", "C", "e", "l", "l",
      " ", "|", " ", "C", "e", "l", "l", " ", "|", "\n">>

\* C18: for counts cols >= 1 and rows >= 1, table replaces doc[start..end)
\* by a newline, a header row of cols 'Header' cells, a newline, a divider
\* row of cols '---' cells, a newline, rows body rows of cols 'Cell' cells
\* with newlines between them, and a final newline, every row being '| ',
\* the cells joined by ' | ', and ' |'; the caret is returned at
\* start + len(block).  Counts 3 and 1 give
\* '\n| Header | Header | Header |\n| --- | --- | --- |\n| Cell | Cell | Cell |\n'.
C18_TableShape ==
    \A i \in CallsOf("table") :
        LET c == calls[i]
            cols == CountOf(c.answers[1])
            rows == CountOf(c.answers[2])
        IN  (ValidCount(cols) /\ ValidCount(rows)) =>
               /\ Inserted(c, BlockOf(cols.val, rows.val))
               /\ (cols.val = 3 /\ rows.val = 1) => Inserted(c, Block3x1)

\* The table was asked for with the answers '3' and '1' at a caret inside
\* the document.
C18_Witness ==
    \E i \in CallsOf("table") :
        /\ calls[i].answers = <<Answer(<<"3">>), Answer(<<"1">>)>>
        /\ 0 < calls[i].start
        /\ calls[i].start = calls[i].end
        /\ calls[i].end < Len(calls[i].markdown)
        /\ Inserted(calls[i], Block3x1)

-----------------------------------------------------------------------------
(* C19 *)

\* C19: when link is given a non-empty URL u, doc[start..end) is replaced
\* by '[' + T + '](' + u + ')', T being the selected text or, when the
\* selection is empty, 'link text'; the caret is returned at
\* start + len(inserted text).
C19_LinkInsertion ==
    \A i \in CallsOf("link") :
        LET c == calls[i]
            u == c.answers[1]
            T == IF c.start = c.end
                 THEN <<"l", "i", "n", "k", " ", "t", "e", "x", "t">>
                 ELSE Slice(c.markdown, c.start, c.end)
        IN  (u.given /\ u.text # <<>>) =>
               Inserted(c, <<"[">> \o T \o <<"]", "(">> \o u.text \o <<")">>)

\* link was given the URL 'u' while the text 'ab' inside the document was
\* selected.
C19_Witness ==
    \E i \in CallsOf("link") :
        /\ calls[i].answers[1] = Answer(<<"u">>)
        /\ Slice(calls[i].markdown, calls[i].start, calls[i].end) = <<"a", "b">>
        /\ calls[i].end < Len(calls[i].markdown)
        /\ Inserted(calls[i], <<"[", "a", "b", "]", "(", "u", ")">>)

-----------------------------------------------------------------------------
(* C20 *)

\* The text that stands in the returned document for doc[start..end) begins
\* with open and ends with close, with the alt text between them; the rest
\* of the document is kept and the caret is after the inserted text.
InsertedAround(c, open, close) ==
    /\ EditedWithin(c, c.start, c.end)
    /\ Len(NewBlock(c)) >= Len(open) + Len(close)
    /\ IsPrefixOf(open, NewBlock(c))
    /\ IsSuffixOf(close, NewBlock(c))
    /\ CaretAt(c, c.start + Len(NewBlock(c)))

\* '<img src="' + url + '" alt="'
HtmlOpen(url) ==
    <<"<", "i", "m", "g", " ", "s", "r", "c", "=", "\"">> \o url
        \o <<"\"", " ", "a", "l", "t", "=", "\"">>

\* '" width="' + width + '">'
HtmlClose(width) ==
    <<"\"", " ", "w", "i", "d", "t", "h", "=", "\"">> \o width \o <<"\"", ">">>

\* C20: when image is given a URL, doc[start..end) is replaced by the HTML
\* tag '<img src="url" alt="alt" width="width">' if a non-empty width was
\* supplied and by the Markdown image '![alt](url)' otherwise, alt being the
\* answer of the alt prompt when there is one; the caret is returned at
\* start + len(inserted text).
C20_ImageForm ==
    \A i \in CallsOf("image") :
        LET c == calls[i]
            url == c.answers[1]
            alt == c.answers[2]
            width == c.answers[3]
            html == width.given /\ width.text # <<>>
        IN  (url.given /\ url.text # <<>>) =>
               /\ html => InsertedAround(c, HtmlOpen(url.text), HtmlClose(width.text))
               /\ ~html => InsertedAround(c, <<"!", "[">>,
                                           <<"]", "(">> \o url.text \o <<")">>)
               /\ (alt.given /\ html) =>
                      Inserted(c, HtmlOpen(url.text) \o alt.text
                                      \o HtmlClose(width.text))
               /\ (alt.given /\ ~html) =>
                      Inserted(c, <<"!", "[">> \o alt.text \o <<"]", "(">>
                                      \o url.text \o <<")">>)

\* image was given the URL 'u', the alt text 'x' and the width '9' while
\* text inside the document was selected.
C20_Witness ==
    \E i \in CallsOf("image") :
        /\ calls[i].answers = <<Answer(<<"u">>), Answer(<<"x">>), Answer(<<"9">>)>>
        /\ calls[i].start < calls[i].end
        /\ calls[i].end < Len(calls[i].markdown)
        /\ Inserted(calls[i], HtmlOpen(<<"u">>) \o <<"x">> \o HtmlClose(<<"9">>))

-----------------------------------------------------------------------------
(* C21 *)

\* C21: when image is given a URL, the alt text it emits is the answer of
\* the alt prompt, or 'alt text' when that prompt was declined.
C21_AltDefault ==
    \A i \in CallsOf("image") :
        LET c == calls[i]
            url == c.answers[1]
            width == c.answers[3]
            alt == IF c.answers[2].given THEN c.answers[2].text
                   ELSE <<"a", "l", "t", " ", "t", "e", "x", "t">>
        IN  (url.given /\ url.text # <<>>) =>
               IF width.given /\ width.text # <<>>
               THEN Inserted(c, HtmlOpen(url.text) \o alt \o HtmlClose(width.text))
               ELSE Inserted(c, <<"!", "[">> \o alt \o <<"]", "(">>
                                    \o url.text \o <<")">>)

-----------------------------------------------------------------------------
(* C22 *)

\* The messages of the prompts issued so far, in order.
Messages == [k \in 1..Len(asked) |-> asked[k].message]

\* The prompts the claim gives each format, in order.
ExpectedPrompts(format) ==
    CASE format = "link" -> <<"Enter the URL:">>
      [] format = "image" ->
            <<"Enter image URL:", "Enter alt text:",
              "Enter optional width (e.g., 300px or 50%):">>
      [] format = "table" -> <<"Enter number of columns:", "Enter number of rows:">>
      [] OTHER -> <<>>

\* C22: when applyFormat has computed its result, link has issued exactly
\* one prompt, image exactly three (URL, alt text, width, in this order),
\* table exactly two (columns, rows, in this order) and every other format
\* none; until then the prompts issued are the first of these; image has
\* issued all three also when its URL prompt was declined.
C22_PromptProtocol ==
    /\ calls # <<>> =>
          /\ running = "none"
          /\ Messages = ExpectedPrompts(calls[Len(calls)].format)
          /\ calls[Len(calls)].answers = [k \in 1..Len(asked) |-> asked[k].answer]
    /\ (running # "none") =>
          /\ calls = <<>>
          /\ Len(asked) <= Len(ExpectedPrompts(running))
          /\ Messages = SubSeq(ExpectedPrompts(running), 1, Len(asked))

\* image has returned after its URL prompt was declined and its other two
\* prompts were answered.
C22_Witness ==
    /\ calls # <<>>
    /\ calls[1].format = "image"
    /\ Len(asked) = 3
    /\ asked[1].answer = Null
    /\ asked[2].answer = Answer(<<"x">>)
    /\ asked[3].answer = Answer(<<"9">>)

-----------------------------------------------------------------------------
(* C23 *)

\* C23: for every format, document, valid range and answers to the prompts,
\* table counts of any size included, applyFormat returns a result and
\* raises no error.
C23_NeverRaises == \A i \in ValidCalls : ~calls[i].raised

\* C23 holds of every call but the table with a valid count of more than
\* MaxExactDigits digits.
C23_RaisesOnlyOnHugeCount ==
    \A i \in ValidCalls :
        calls[i].raised =>
            /\ calls[i].format = "table"
            /\ ValidCount(CountOf(calls[i].answers[1]))
            /\ ValidCount(CountOf(calls[i].answers[2]))
            /\ \E k \in 1..2 : Len(calls[i].answers[k].text) > MaxExactDigits

-----------------------------------------------------------------------------
(* Vocabulary of the properties of the AI actions. *)

\* s[a..b), the offsets taken no further than the end of s.
Part(s, a, b) ==
    [k \in 1..(Min(b, Len(s)) - Min(a, Len(s))) |-> s[Min(a, Len(s)) + k]]

\* In this step the invocation under way ended with the given outcome.
Ends(outcome) ==
    /\ Len(flights) = 1
    /\ flights' = <<>>
    /\ settled' # <<>>
    /\ settled'[1].outcome = outcome

\* The invocation that ended last was of the given action and had the
\* given outcome.
Ended(action, outcome) ==
    /\ settled # <<>>
    /\ settled[1].action = action
    /\ settled[1].outcome = outcome

-----------------------------------------------------------------------------
(* C24 *)

\* The step of an IMPROVE, SUMMARIZE_SELECTION or CHANGE_TONE that succeeds
\* sets the document to doc[0..sel.start) + result + doc[sel.end..), doc
\* and sel being those of the invocation, and leaves the modal as it is.
SelectionActionReplaces ==
    (Ends("resolved") /\ flights[1].action \in SelectionActions) =>
        /\ markdown' = Part(flights[1].markdown, 0, flights[1].selection.start)
                           \o settled'[1].value
                           \o Part(flights[1].markdown, flights[1].selection.end,
                                   Len(flights[1].markdown))
        /\ modalContent' = modalContent

\* C24: a selection-level AI action that succeeds replaces the selection by
\* the returned text: the new document is doc[0..sel.start) + result +
\* doc[sel.end..) for the document and the selection at invocation, and no
\* modal is opened.
C24_SelectionReplaced == [][SelectionActionReplaces]_vars

\* IMPROVE has succeeded on the selected 'a' of 'ab': the document is 'rb'
\* and there is no modal.
C24_Witness ==
    /\ Ended("improve", "resolved")
    /\ markdown = <<"r", "b">>
    /\ modalContent.isNull
    /\ ~isLoading

-----------------------------------------------------------------------------
(* C25 *)

\* The step that ends a SUMMARIZE_DOCUMENT, GENERATE_OUTLINE or
\* SUGGEST_TITLES leaves the document as it is and shows the result in a
\* modal with the title of the action, or the error in an 'Error' modal.
DocumentActionShowsModal ==
    ((Ends("resolved") \/ Ends("rejected")) /\ flights[1].action \in DocumentActions)
    => /\ markdown' = markdown
       /\ ~modalContent'.isNull
       /\ modalContent'.content = settled'[1].value
       /\ modalContent'.title =
              IF Ends("rejected") THEN "Error"
              ELSE CASE flights[1].action = "summarize_document" -> "Document Summary"
                     [] flights[1].action = "generate_outline" -> "Generated Outline"
                     [] flights[1].action = "suggest_titles" -> "Suggested Titles"

\* C25: the document-level AI actions never modify the document: on
\* success the result is shown in a modal titled 'Document Summary',
\* 'Generated Outline' or 'Suggested Titles', on failure an 'Error' modal is
\* shown, and markdown is unchanged in both cases.
C25_DocumentUnchanged == [][DocumentActionShowsModal]_vars

\* GENERATE_OUTLINE has succeeded on the document 'ab' and its result is
\* shown.
C25_Witness ==
    /\ Ended("generate_outline", "resolved")
    /\ markdown = <<"a", "b">>
    /\ ~settled[1].edited
    /\ modalContent = [isNull |-> FALSE, title |-> "Generated Outline",
                       content |-> <<"r">>]

-----------------------------------------------------------------------------
(* C27 *)

\* The step of a selection-level action that succeeds after the document or
\* the selection was changed: the document it sets is built from the
\* document and the selection of the invocation alone.
SnapshotWins ==
    (/\ Ends("resolved")
     /\ flights[1].action \in SelectionActions
     /\ (markdown # flights[1].markdown \/ selection # flights[1].selection))
    => LET doc == flights[1].markdown
           sel == flights[1].selection
       IN  markdown' = Part(doc, 0, sel.start) \o settled'[1].value
                           \o Part(doc, sel.end, Len(doc))

\* C27: when IMPROVE, SUMMARIZE_SELECTION or CHANGE_TONE completes, the
\* document is set from the document and the selection captured at the
\* invocation; what the user did to the editor while the call was under way
\* does not enter the final document.
C27_StaleSnapshot == [][SnapshotWins]_vars

\* CHANGE_TONE has succeeded on the selected 'b' of 'ab' after the user
\* had edited the document: the document is 'ar'.
C27_Witness ==
    /\ Ended("change_tone", "resolved")
    /\ settled[1].edited
    /\ markdown = <<"a", "r">>
    /\ ~isLoading

-----------------------------------------------------------------------------
(* C28 *)

\* The step of a GENERATE_OUTLINE_FROM_PROMPT that succeeds sets the
\* document to trim(current) + two newlines + result, current being the
\* document at that time; the invocation with an empty prompt starts no
\* call and leaves the document as it is.
OutlineAppendsToCurrent ==
    /\ (Ends("resolved") /\ flights[1].action = OutlineFromPrompt) =>
          markdown' = trim(markdown) \o <<"\n", "\n">> \o settled'[1].value
    /\ (settled = <<>> /\ settled' # <<>> /\ settled'[1].outcome = "noPrompt") =>
          /\ markdown' = markdown
          /\ flights' = flights

\* C28: GENERATE_OUTLINE_FROM_PROMPT appends to the live document: on
\* completion the document is trim(current) + '\n\n' + result for the
\* document at completion, so that edits made while the call was under way
\* are kept; with an empty prompt no call is made and the document is
\* unchanged.
C28_OutlineAppended == [][OutlineAppendsToCurrent]_vars

\* GENERATE_OUTLINE_FROM_PROMPT has succeeded after the user had edited the
\* document to ' a ': the document is 'a', two newlines and the result.
C28_Witness ==
    /\ Ended(OutlineFromPrompt, "resolved")
    /\ settled[1].edited
    /\ markdown = <<"a", "\n", "\n", "r">>

-----------------------------------------------------------------------------
(* C26 *)

\* The step in which handleAiAction is called: when it goes on to await the
\* AI service, isLoading is true after it; on the missing selection, the
\* missing prompt and the unknown action, isLoading is false again at the
\* end of the same step.
InvocationSetsLoading ==
    /\ (flights = <<>> /\ flights' # <<>>) => isLoading'
    /\ (settled = <<>> /\ settled' # <<>>
          /\ settled'[1].outcome \in {"noSelection", "noPrompt", "unknown"})
       => ~isLoading'
    /\ (Ends("resolved") \/ Ends("rejected")) => (isLoading /\ ~isLoading')

\* C26: every invocation of handleAiAction sets isLoading to true and,
\* provided the call of the AI service returns or throws, isLoading is
\* eventually false again, on success, on failure, on the missing
\* selection, on the missing prompt and on the unknown action.
C26_LoadingEnds ==
    /\ [][InvocationSetsLoading]_vars
    /\ (isLoading ~> ~isLoading)
    /\ ((flights # <<>>) ~> (flights = <<>> /\ settled # <<>> /\ ~isLoading))

\* The call of the AI service for SUGGEST_TITLES has thrown: the error is
\* shown and isLoading is false.
C26_Witness ==
    /\ Ended("suggest_titles", "rejected")
    /\ ~isLoading
    /\ modalContent = ErrorModal(<<"m">>)

-----------------------------------------------------------------------------
(* C29 *)

\* A step that starts an invocation of handleAiAction which reaches the
\* call of the AI service.
Starts == Len(flights') > Len(flights)

\* No invocation starts while isLoading is true, an invocation of a
\* selection action starts only while a selection is active, and no two
\* invocations are in flight together.
OneAtATime ==
    /\ isLoading => ~Starts
    /\ (Starts /\ flights'[Len(flights')].action \in SelectionActions)
       => selectionActive
    /\ Len(flights') <= 1
    /\ flights' # <<>> => isLoading'

\* C29: at most one AI action of the sidebar is in flight: while isLoading
\* is true no control of the sidebar starts a second invocation of
\* handleAiAction, and the selection actions start only while a selection
\* is active.
C29_OneInFlight == [][OneAtATime]_vars

\* A second action of the sidebar is in flight after an earlier one has
\* ended, isLoading being true again.
C29_Witness ==
    /\ Len(flights) = 1
    /\ flights[1].action = "change_tone"
    /\ isLoading
    /\ Ended(OutlineFromPrompt, "resolved")

-----------------------------------------------------------------------------
(* C30 *)

\* The marker a list action inserts at a caret.
MarkerOf(format) == IF format = "ul" THEN <<"-", " ">> ELSE <<"1", ".", " ">>

\* The call was made on an empty selection.
AtCaret(c) == c.start = c.end

\* C30: ul and ol on an empty selection insert the marker at the caret and
\* not at the start of the line: the returned document is the document
\* with '- ' for ul and '1. ' for ol inserted at offset start, and the
\* returned selection covers the marker, [start, start + 2] for ul and
\* [start, start + 3] for ol.
C30_MarkerAtCaret ==
    \A i \in CallsOf("ul") \cup CallsOf("ol") :
        LET c == calls[i]
            marker == MarkerOf(c.format)
        IN  AtCaret(c) =>
                /\ c.newMarkdown = Slice(c.markdown, 0, c.start) \o marker
                                       \o Slice(c.markdown, c.start, Len(c.markdown))
                /\ c.newSelection = [start |-> c.start,
                                     end |-> c.start + Len(marker)]

\* ol has been applied at a caret inside a line, text of the line standing
\* before the caret and after it, and has put its marker between them.
C30_Witness ==
    \E i \in CallsOf("ol") :
        LET c == calls[i]
        IN  /\ AtCaret(c)
            /\ 0 < c.start
            /\ c.start < Len(c.markdown)
            /\ c.markdown[c.start] # "\n"
            /\ c.markdown[c.start + 1] # "\n"
            /\ Slice(c.newMarkdown, c.start, c.start + 3) = MarkerOf("ol")
            /\ c.newSelection.end = c.start + 3

=============================================================================
